---- MODULE Spec2Model ----
(***************************************************************************)
(* Model of the Counterfactual-Cache performance auditor:                  *)
(*   app/services_playwright.py  _single_run_real, _simulate_phases_from_nav, *)
(*                               measure_multiple_runs, simulate_optimizations *)
(*   app/main.py                 api_measure, api_simulate                  *)
(*                                                                         *)
(* Durations are fixed-point integers in hundredths of a millisecond       *)
(* (2000 is 20.0 ms), so the heuristic factors 0.1 .. 0.9 and their        *)
(* compositions are exact on whole-millisecond inputs.                     *)
(***************************************************************************)
EXTENDS Integers, Sequences, FiniteSets, TLC

VARIABLES
    \* process-wide state
    PLAYWRIGHT_AVAILABLE,   \* set once when services_playwright is imported
    MEASUREMENT_TIMES,      \* urls that have an average duration recorded
    \* the request being served
    pc,                     \* "idle", "batch" (inside measure_multiple_runs), "responded"
    request,                \* endpoint and query parameters
    response,               \* status and body sent back
    \* measure_multiple_runs
    runs, i, proxies, raw_results, mmr_result,
    mmrCalls,               \* calls of measure_multiple_runs made for this request
    liveCalls,              \* calls of _single_run_real made by this batch
    \* _single_run_real
    srpc,                   \* position inside the call, "none" outside it
    proxy, pwScope, openBrowsers, openContexts, openPages, r_nav, exc,
    \* (open*: objects this request opened and has not closed with close())
    \* simulate_optimizations
    sim_result,
    \* the extractor applied to a navigation record on its own
    exNav, exOut,
    \* the optimization heuristics applied to a baseline on their own
    simBase, simScenario, simOut

mainVars == <<PLAYWRIGHT_AVAILABLE, MEASUREMENT_TIMES, pc, request, response,
              runs, i, proxies, raw_results, mmr_result, mmrCalls, liveCalls,
              srpc, proxy, pwScope, openBrowsers, openContexts, openPages, r_nav, exc,
              sim_result>>
exVars == <<exNav, exOut>>
simVars == <<simBase, simScenario, simOut>>
vars == <<mainVars, exVars, simVars>>

\* ---------------------------------------------------------------- bounds
MaxFields == 3
MaxRuns == 2

\* ------------------------------------------------------------ arithmetic
Max(a, b) == IF a >= b THEN a ELSE b

\* x * (pct/100), the float products of simulate_optimizations
Scale(x, pct) == (x * pct) \div 100

\* round(x, 1): nearest tenth of a millisecond, ties to even
Round1(x) ==
    LET a == IF x < 0 THEN 0 - x ELSE x
        q == a \div 10
        r == a % 10
        m == IF r > 5 THEN q + 1
             ELSE IF r < 5 THEN q
             ELSE IF q % 2 = 0 THEN q ELSE q + 1
    IN  IF x < 0 THEN 0 - (m * 10) ELSE m * 10

\* ----------------------------------------------------- phase breakdowns
PhaseIds == {"redirect", "dns", "connect", "tls", "http_wait", "download", "client_render"}

PhaseOrder == <<"redirect", "dns", "connect", "tls", "http_wait", "download", "client_render">>

ZeroPhases == [k \in PhaseIds |-> 0]

\* ------------------------------------------- navigation-timing records
\* A JSON value held by a navigation record: a number, null, or a value
\* float()/int() rejects (a non-numeric string).
Num(n) == [k |-> "num", v |-> n]
Null == [k |-> "null", v |-> 0]
Bad == [k |-> "bad", v |-> 0]

NavFields == {"domainLookupStart", "domainLookupEnd", "connectStart", "connectEnd",
              "secureConnectionStart", "requestStart", "responseStart", "responseEnd",
              "loadEventEnd", "redirectCount", "redirectStart", "redirectEnd"}

NoneNav == [k |-> "none", d |-> [f \in {} |-> Null]]
NonDictNav == [k |-> "nondict", d |-> [f \in {} |-> Null]]
DictNav(fn) == [k |-> "dict", d |-> fn]
EmptyDictNav == DictNav([f \in {} |-> Null])

\* nav.get(f, 0)
NavGet(nav, f) == IF f \in DOMAIN nav.d THEN nav.d[f] ELSE Num(0)

\* (x or 0): None and 0 are falsy
OrZero(x) == IF x.k = "null" \/ (x.k = "num" /\ x.v = 0) THEN Num(0) ELSE x

\* float(nav.get(f, 0) or 0) raises on a non-numeric value
FloatRaises(nav, f) == OrZero(NavGet(nav, f)).k = "bad"
FloatOf(nav, f) == OrZero(NavGet(nav, f)).v

\* `if nav:` is false for None and for an empty record
NavTruthy(nav) == nav.k = "nondict" \/ (nav.k = "dict" /\ DOMAIN nav.d # {})

\* fields read unconditionally by the try block
AlwaysRead == {"domainLookupEnd", "domainLookupStart", "connectEnd", "connectStart",
               "secureConnectionStart", "requestStart", "responseStart", "responseEnd",
               "loadEventEnd", "redirectCount"}

\* redirectStart/redirectEnd are read only when redirect_count is non-zero
RedirectRead(nav) ==
    IF FloatOf(nav, "redirectCount") # 0 THEN {"redirectEnd", "redirectStart"} ELSE {}

\* the try block raises: no nav, nav.get missing, or float()/int() fails
ExtractRaises(nav) ==
    \/ ~NavTruthy(nav)
    \/ nav.k = "nondict"
    \/ \E f \in AlwaysRead : FloatRaises(nav, f)
    \/ \E f \in RedirectRead(nav) : FloatRaises(nav, f)

DnsPhaseUnclamped(nav) == FloatOf(nav, "domainLookupEnd") - FloatOf(nav, "domainLookupStart")

DnsPhase(nav) == Max(0, FloatOf(nav, "domainLookupEnd") - FloatOf(nav, "domainLookupStart"))

ConnectPhase(nav) == Max(0, FloatOf(nav, "connectEnd") - FloatOf(nav, "connectStart"))

TlsPhaseUnguarded(nav) ==
    Max(0, FloatOf(nav, "connectEnd") - FloatOf(nav, "secureConnectionStart"))

TlsPhase(nav) ==
    LET secure_start == FloatOf(nav, "secureConnectionStart")
    IN  IF secure_start # 0 /\ secure_start > 0
        THEN Max(0, FloatOf(nav, "connectEnd") - secure_start)
        ELSE 0

HttpWaitPhase(nav) == Max(0, FloatOf(nav, "responseStart") - FloatOf(nav, "requestStart"))

DownloadPhase(nav) == Max(0, FloatOf(nav, "responseEnd") - FloatOf(nav, "responseStart"))

ClientRenderPhase(nav) == Max(0, FloatOf(nav, "loadEventEnd") - FloatOf(nav, "responseEnd"))

RedirectPhase(nav) ==
    IF FloatOf(nav, "redirectCount") # 0
    THEN Max(0, FloatOf(nav, "redirectEnd") - FloatOf(nav, "redirectStart"))
    ELSE 0

\* the phases assigned at the end of the try block
ExtractedPhases(nav) ==
    [k \in PhaseIds |->
        CASE k = "redirect" -> RedirectPhase(nav)
          [] k = "dns" -> DnsPhase(nav)
          [] k = "connect" -> ConnectPhase(nav)
          [] k = "tls" -> TlsPhase(nav)
          [] k = "http_wait" -> HttpWaitPhase(nav)
          [] k = "download" -> DownloadPhase(nav)
          [] k = "client_render" -> ClientRenderPhase(nav)]

\* random.uniform(lo, hi) per phase: the draw with every phase at the low end
\* of its range and the one with every phase at the high end stand for the
\* fallback's possible results
SimLow == [redirect |-> 0, dns |-> 1000, connect |-> 2000, tls |-> 1000,
           http_wait |-> 5000, download |-> 1000, client_render |-> 10000]

SimHigh == [redirect |-> 5000, dns |-> 8000, connect |-> 12000, tls |-> 20000,
            http_wait |-> 30000, download |-> 50000, client_render |-> 80000]

SimSamples == {SimLow, SimHigh}

\* _simulate_phases_from_nav(nav): every result the call can return, tagged
\* with the branch that produced it (fellBack is bookkeeping, not program data)
SimulatePhasesFromNav(nav) ==
    IF ExtractRaises(nav)
    THEN {[phases |-> s, fellBack |-> TRUE] : s \in SimSamples}
    ELSE {[phases |-> ExtractedPhases(nav), fellBack |-> FALSE]}

\* ------------------------------------------------ totals and display rows
AllKeys == PhaseIds \cup {"full_ttfb", "total"}

FullTtfb(p) == p["redirect"] + p["dns"] + p["connect"] + p["tls"] + p["http_wait"]

TotalOf(p, full_ttfb) == full_ttfb + p["download"] + p["client_render"]

\* a phase mapping extended with full_ttfb and total computed from it
WithTotals(p) ==
    [k \in AllKeys |->
        IF k = "full_ttfb" THEN FullTtfb(p)
        ELSE IF k = "total" THEN TotalOf(p, FullTtfb(p))
        ELSE p[k]]

RecomputeTotalsStale(o) == o

\* optimized["full_ttfb"] and optimized["total"] reassigned from optimized's phases
RecomputeTotals(o) ==
    [o EXCEPT !["full_ttfb"] = FullTtfb(o),
              !["total"] = TotalOf(o, FullTtfb(o))]

PhaseNames == [redirect |-> "Redirect", dns |-> "DNS", connect |-> "TCP Connect",
               tls |-> "TLS Handshake", http_wait |-> "HTTP Wait",
               download |-> "Download", client_render |-> "Client Render"]

\* the seven display rows built from original and optimized
PhaseDisplay(original, optimized) ==
    [n \in 1..7 |->
        [id |-> PhaseOrder[n],
         name |-> PhaseNames[PhaseOrder[n]],
         original |-> Round1(original[PhaseOrder[n]]),
         optimized |-> Round1(optimized[PhaseOrder[n]]),
         delta |-> Round1(optimized[PhaseOrder[n]] - original[PhaseOrder[n]])]]

\* ------------------------------------------------ optimization heuristics
TlsFloor == 100
HttpWaitFloor == 1000
ClientRenderFloor == 10000

Scenarios == [tls_warm : BOOLEAN, edge_cache : BOOLEAN, defer_js : BOOLEAN, early_hints : BOOLEAN]

TlsWarmStepNoFloor(flag, o) ==
    IF flag THEN [o EXCEPT !["tls"] = Scale(@, 10)] ELSE o

TlsWarmStepUnconditional(flag, o) ==
    [o EXCEPT !["tls"] = Max(TlsFloor, Scale(@, 10))]

TlsWarmStep(flag, o) ==
    IF flag THEN [o EXCEPT !["tls"] = Max(TlsFloor, Scale(@, 10))] ELSE o

EdgeCacheStepNoHttpWait(flag, o) ==
    IF flag
    THEN [o EXCEPT !["dns"] = Scale(@, 20), !["connect"] = Scale(@, 10)]
    ELSE o

EdgeCacheStep(flag, o) ==
    IF flag
    THEN [o EXCEPT !["dns"] = Scale(@, 20),
                   !["connect"] = Scale(@, 10),
                   !["http_wait"] = Max(HttpWaitFloor, Scale(@, 30))]
    ELSE o

DeferJsStep(flag, o) ==
    IF flag THEN [o EXCEPT !["client_render"] = Max(ClientRenderFloor, Scale(@, 60))] ELSE o

\* reads optimized["http_wait"], which edge_cache may already have rewritten
EarlyHintsStep(flag, o) ==
    IF flag
    THEN [o EXCEPT !["http_wait"] = Max(HttpWaitFloor, Scale(@, 70)),
                   !["download"] = Scale(@, 90)]
    ELSE o

\* optimized after the four `if` blocks and the recomputed totals
Optimize(original, sc) ==
    RecomputeTotals(
        EarlyHintsStep(sc.early_hints,
            DeferJsStep(sc.defer_js,
                EdgeCacheStep(sc.edge_cache,
                    TlsWarmStep(sc.tls_warm, original)))))

\* the value simulate_optimizations returns once its baseline is measured
SimulateResult(baseOriginal, sc) ==
    LET original == baseOriginal
        optimized == Optimize(original, sc)
    IN  [original |-> original,
         optimized |-> optimized,
         deltas |-> [k \in AllKeys |-> optimized[k] - original[k]],
         phases |-> PhaseDisplay(original, optimized),
         scenario |-> sc]

\* ------------------------------------------------ measure_multiple_runs
\* runs = max(1, int(runs))
ClampRuns(n) == Max(1, n)

\* proxies[i % len(proxies)] if proxies else None   (None is "")
ProxyFor(ps, idx) == IF ps # <<>> THEN ps[(idx % Len(ps)) + 1] ELSE ""

\* One entry of raw_results. hasWarning tells whether the "warning" key is
\* present; origin is bookkeeping that records which branch built the entry:
\* "extracted" (phases computed from the navigation record), "nav_fallback"
\* (the extractor fell back on the record it was given), "engine_unavailable"
\* (PLAYWRIGHT_AVAILABLE false) or "attempt_raised" (the except branch).
RunResult(idx, ph, warn, hasWarn, origin) ==
    [run |-> idx + 1,
     phases |-> ph,
     full_ttfb |-> FullTtfb(ph),
     total |-> TotalOf(ph, FullTtfb(ph)),
     hasWarning |-> hasWarn,
     warning |-> warn,
     origin |-> origin]

OkRunWarnsOnFallback(idx, r, origin) ==
    RunResult(idx, r.phases, IF r.fellBack THEN "simulated" ELSE "", r.fellBack, origin)

\* the entry appended at the end of the try block
OkRun(idx, r, origin) == RunResult(idx, r.phases, "", FALSE, origin)

AfterFailureAbort(rr, idx, r, e) == rr

\* raw_results after the except branch ran for attempt idx with exception e
AfterFailure(rr, idx, r, e) ==
    Append(rr, RunResult(idx, r.phases, e, TRUE, "attempt_raised"))

RECURSIVE SumPhase(_, _)
SumPhase(rr, k) == IF rr = <<>> THEN 0 ELSE rr[1].phases[k] + SumPhase(Tail(rr), k)

\* entrywise mean over the entries that carry phases (all of them)
Aggregated(rr) ==
    LET count == Len(rr)
    IN  [k \in PhaseIds |-> IF count > 0 THEN SumPhase(rr, k) \div count ELSE SumPhase(rr, k)]

\* the value measure_multiple_runs returns
MeasureResult(url, n, rr) ==
    LET original == WithTotals(Aggregated(rr))
        optimized == original
    IN  [url |-> url,
         runs |-> n,
         raw_results |-> rr,
         original |-> original,
         optimized |-> optimized,
         phases |-> PhaseDisplay(original, optimized)]

\* ------------------------------------------------------- idle components
NoRequest == [endpoint |-> "none", urlPresent |-> FALSE, url |-> "", runs |-> 0,
              proxies |-> <<>>, scenario |-> [tls_warm |-> FALSE, edge_cache |-> FALSE,
                                              defer_js |-> FALSE, early_hints |-> FALSE]]

NoResponse == [status |-> 0, body |-> <<>>]

MainIdle ==
    /\ MEASUREMENT_TIMES = {}
    /\ pc = "idle"
    /\ request = NoRequest
    /\ response = NoResponse
    /\ runs = 0 /\ i = 0 /\ proxies = <<>> /\ raw_results = <<>> /\ mmr_result = <<>>
    /\ mmrCalls = 0 /\ liveCalls = 0
    /\ srpc = "none" /\ proxy = "" /\ pwScope = FALSE
    /\ openBrowsers = 0 /\ openContexts = 0 /\ openPages = 0
    /\ r_nav = NoneNav /\ exc = ""
    /\ sim_result = <<>>

ExIdle == exNav = NoneNav /\ exOut = <<>>

SimIdle ==
    /\ simBase = WithTotals(ZeroPhases)
    /\ simScenario = NoRequest.scenario
    /\ simOut = <<>>

\* ------------------------------- the extractor on its own (SpecExtract)
NavValues == {Null, Bad, Num(0), Num(1000), Num(3000)}

ExInit ==
    /\ exNav \in {NoneNav, NonDictNav, EmptyDictNav}
    /\ exOut = <<>>

\* the caller's record gains one field
ExSetField(f, v) ==
    /\ exOut = <<>>
    /\ exNav.k = "dict"
    /\ f \notin DOMAIN exNav.d
    /\ Cardinality(DOMAIN exNav.d) < MaxFields
    /\ exNav' = DictNav([g \in DOMAIN exNav.d \cup {f} |-> IF g = f THEN v ELSE exNav.d[g]])
    /\ UNCHANGED <<exOut, mainVars, simVars>>

\* phases = _simulate_phases_from_nav(nav)
ExCall ==
    /\ exOut = <<>>
    /\ \E r \in SimulatePhasesFromNav(exNav) : exOut' = <<r>>
    /\ UNCHANGED <<exNav, mainVars, simVars>>

ExNext ==
    \/ \E f \in NavFields, v \in NavValues : ExSetField(f, v)
    \/ ExCall

SpecExtractInit == PLAYWRIGHT_AVAILABLE = TRUE /\ MainIdle /\ SimIdle /\ ExInit

SpecExtract == SpecExtractInit /\ [][ExNext]_vars

\* --------------------------------- the heuristics on their own (SpecSim)
BaselineValues ==
    [redirect |-> {0, 3000}, dns |-> {0, 2000}, connect |-> {0, 4000},
     tls |-> {0, 500, 10000}, http_wait |-> {500, 2000, 10000},
     download |-> {0, 3000}, client_render |-> {5000, 20000}]

Baselines == {WithTotals(p) : p \in {q \in [PhaseIds -> {0, 500, 2000, 3000, 4000, 5000, 10000, 20000}] :
                                       \A k \in PhaseIds : q[k] \in BaselineValues[k]}}

SimInit ==
    /\ simBase \in Baselines
    /\ simScenario \in Scenarios
    /\ simOut = <<>>

\* simulate_optimizations after `base = await measure_multiple_runs(url, runs=1)`
SimApply ==
    /\ simOut = <<>>
    /\ simOut' = <<SimulateResult(simBase, simScenario)>>
    /\ UNCHANGED <<simBase, simScenario, mainVars, exVars>>

SimNext == SimApply

SpecSimInit == PLAYWRIGHT_AVAILABLE = TRUE /\ MainIdle /\ ExIdle /\ SimInit

SpecSim == SpecSimInit /\ [][SimNext]_vars

\* ------------------------------------- the request handlers (Spec)
Urls == {"", "http://a"}

\* the `proxies` query string, already split on ","
ProxyLists == {<<>>, <<"p1", "p2">>}

\* what page.evaluate can hand back for the navigation entry
HttpsNav == DictNav([domainLookupStart |-> Num(1000), domainLookupEnd |-> Num(3000),
                     connectStart |-> Num(3000), connectEnd |-> Num(9000),
                     secureConnectionStart |-> Num(5000),
                     requestStart |-> Num(9000), responseStart |-> Num(15000),
                     responseEnd |-> Num(18000), loadEventEnd |-> Num(40000),
                     redirectCount |-> Num(1), redirectStart |-> Num(0),
                     redirectEnd |-> Num(1000)])

PlainHttpNav == DictNav([domainLookupStart |-> Num(1000), domainLookupEnd |-> Num(1000),
                         connectStart |-> Num(1000), connectEnd |-> Num(2000),
                         secureConnectionStart |-> Num(0),
                         requestStart |-> Num(2000), responseStart |-> Num(4000),
                         responseEnd |-> Num(7000), loadEventEnd |-> Num(12000),
                         redirectCount |-> Num(0)])

MalformedNav == DictNav([connectEnd |-> Num(2000), responseStart |-> Bad])

NavResults == {NoneNav, HttpsNav, PlainHttpNav, MalformedNav}

SetResponse(st, b) == response' = [status |-> st, body |-> b]

\* measure_multiple_runs is entered: runs clamped, raw_results = []
EnterBatch(n, ps) ==
    /\ pc' = "batch"
    /\ mmrCalls' = mmrCalls + 1
    /\ runs' = ClampRuns(n)
    /\ i' = 0
    /\ proxies' = ps
    /\ raw_results' = <<>>

\* GET /api/measure up to its first await
ApiMeasure(present, url, n, ps) ==
    /\ pc = "idle"
    /\ request' = [NoRequest EXCEPT !.endpoint = "measure", !.urlPresent = present,
                                    !.url = url, !.runs = n, !.proxies = ps]
    /\ IF ~present
       THEN \* url: str = Query(...): the required parameter is missing
            /\ SetResponse(422, <<>>)
            /\ pc' = "responded"
            /\ UNCHANGED <<mmrCalls, runs, i, proxies, raw_results>>
       ELSE IF url = ""
       THEN \* if not url: raise HTTPException(400, "Missing url")
            /\ SetResponse(400, <<>>)
            /\ pc' = "responded"
            /\ UNCHANGED <<mmrCalls, runs, i, proxies, raw_results>>
       ELSE /\ EnterBatch(n, ps)
            /\ UNCHANGED response
    /\ UNCHANGED <<PLAYWRIGHT_AVAILABLE, MEASUREMENT_TIMES, mmr_result, liveCalls,
                   srpc, proxy, pwScope, openBrowsers, openContexts, openPages,
                   r_nav, exc, sim_result, exVars, simVars>>

\* GET /simulate up to its first await: simulate_optimizations calls
\* measure_multiple_runs(url, runs=1) straight away
ApiSimulate(present, url, sc) ==
    /\ pc = "idle"
    /\ request' = [NoRequest EXCEPT !.endpoint = "simulate", !.urlPresent = present,
                                    !.url = url, !.scenario = sc]
    /\ IF ~present
       THEN /\ SetResponse(422, <<>>)
            /\ pc' = "responded"
            /\ UNCHANGED <<mmrCalls, runs, i, proxies, raw_results>>
       ELSE /\ EnterBatch(1, <<>>)
            /\ UNCHANGED response
    /\ UNCHANGED <<PLAYWRIGHT_AVAILABLE, MEASUREMENT_TIMES, mmr_result, liveCalls,
                   srpc, proxy, pwScope, openBrowsers, openContexts, openPages,
                   r_nav, exc, sim_result, exVars, simVars>>

InLoop == pc = "batch" /\ srpc = "none" /\ i < runs

\* loop body with PLAYWRIGHT_AVAILABLE false: phases = _simulate_phases_from_nav(None)
AttemptSimulated ==
    /\ InLoop
    /\ ~PLAYWRIGHT_AVAILABLE
    /\ \E r \in SimulatePhasesFromNav(NoneNav) :
          raw_results' = Append(raw_results, OkRun(i, r, "engine_unavailable"))
    /\ i' = i + 1
    /\ UNCHANGED <<PLAYWRIGHT_AVAILABLE, MEASUREMENT_TIMES, pc, request, response, runs,
                   proxies, mmr_result, mmrCalls, liveCalls, srpc, proxy, pwScope,
                   openBrowsers, openContexts, openPages, r_nav, exc, sim_result,
                   exVars, simVars>>

\* loop body with PLAYWRIGHT_AVAILABLE true: r = await _single_run_real(...)
AttemptLive ==
    /\ InLoop
    /\ PLAYWRIGHT_AVAILABLE
    /\ srpc' = "start"
    /\ liveCalls' = liveCalls + 1
    /\ proxy' = ProxyFor(proxies, i)
    /\ r_nav' = NoneNav
    /\ UNCHANGED <<PLAYWRIGHT_AVAILABLE, MEASUREMENT_TIMES, pc, request, response, runs, i,
                   proxies, raw_results, mmr_result, mmrCalls, pwScope,
                   openBrowsers, openContexts, openPages, exc, sim_result,
                   exVars, simVars>>

\* _single_run_real returned: nav = r.get("nav"); phases = _simulate_phases_from_nav(nav)
AttemptReturned ==
    /\ pc = "batch" /\ srpc = "returned"
    /\ \E r \in SimulatePhasesFromNav(r_nav) :
          raw_results' = Append(raw_results,
                                OkRun(i, r, IF r.fellBack THEN "nav_fallback" ELSE "extracted"))
    /\ i' = i + 1
    /\ srpc' = "none"
    /\ UNCHANGED <<PLAYWRIGHT_AVAILABLE, MEASUREMENT_TIMES, pc, request, response, runs,
                   proxies, mmr_result, mmrCalls, liveCalls, proxy, pwScope,
                   openBrowsers, openContexts, openPages, r_nav, exc, sim_result,
                   exVars, simVars>>

\* _single_run_real raised: the except branch simulates the run and keeps str(e)
AttemptFailed ==
    /\ pc = "batch" /\ srpc = "raised"
    /\ \E r \in SimulatePhasesFromNav(NoneNav) :
          raw_results' = AfterFailure(raw_results, i, r, exc)
    /\ i' = i + 1
    /\ srpc' = "none"
    /\ exc' = ""
    /\ UNCHANGED <<PLAYWRIGHT_AVAILABLE, MEASUREMENT_TIMES, pc, request, response, runs,
                   proxies, mmr_result, mmrCalls, liveCalls, proxy, pwScope,
                   openBrowsers, openContexts, openPages, r_nav, sim_result,
                   exVars, simVars>>

\* ---------------------------------------------------- _single_run_real
\* One action per await. Each awaited Playwright call either completes or
\* raises; the exception's text stands for str(e).
SrFrame ==
    UNCHANGED <<PLAYWRIGHT_AVAILABLE, MEASUREMENT_TIMES, pc, request, response, runs, i,
                proxies, raw_results, mmr_result, mmrCalls, liveCalls, proxy, sim_result,
                exVars, simVars>>

\* an exception leaves the body of the `async with` block
Unwind(msg) == srpc' = "unwind" /\ exc' = msg

\* async with async_playwright() as pw:
SrStart ==
    /\ srpc = "start"
    /\ \/ /\ pwScope' = TRUE /\ srpc' = "launch" /\ UNCHANGED exc
       \/ /\ srpc' = "raised" /\ exc' = "playwright start failed" /\ UNCHANGED pwScope
    /\ UNCHANGED <<openBrowsers, openContexts, openPages, r_nav>>
    /\ SrFrame

\* browser = await pw.chromium.launch(headless=True, args=launch_args)
SrLaunch ==
    /\ srpc = "launch"
    /\ \/ /\ openBrowsers' = openBrowsers + 1 /\ srpc' = "new_context" /\ UNCHANGED exc
       \/ /\ Unwind("launch failed") /\ UNCHANGED openBrowsers
    /\ UNCHANGED <<pwScope, openContexts, openPages, r_nav>>
    /\ SrFrame

\* context = await browser.new_context(**context_kwargs)
SrNewContext ==
    /\ srpc = "new_context"
    /\ \/ /\ openContexts' = openContexts + 1 /\ srpc' = "new_page" /\ UNCHANGED exc
       \/ /\ Unwind("new_context failed") /\ UNCHANGED openContexts
    /\ UNCHANGED <<pwScope, openBrowsers, openPages, r_nav>>
    /\ SrFrame

\* page = await context.new_page()
SrNewPage ==
    /\ srpc = "new_page"
    /\ \/ /\ openPages' = openPages + 1 /\ srpc' = "goto" /\ UNCHANGED exc
       \/ /\ Unwind("new_page failed") /\ UNCHANGED openPages
    /\ UNCHANGED <<pwScope, openBrowsers, openContexts, r_nav>>
    /\ SrFrame

\* response = await page.goto(url, wait_until="load", timeout=timeout)
\* a navigation error or timeout enters the except block
SrGoto ==
    /\ srpc = "goto"
    /\ \/ /\ srpc' = "wait" /\ UNCHANGED exc
       \/ /\ srpc' = "err_close_page" /\ exc' = "Navigation error"
    /\ UNCHANGED <<pwScope, openBrowsers, openContexts, openPages, r_nav>>
    /\ SrFrame

\* except block: try: await page.close()
SrErrClosePage ==
    /\ srpc = "err_close_page"
    /\ \/ /\ openPages' = openPages - 1 /\ UNCHANGED exc
       \/ /\ exc' = "page.close failed" /\ UNCHANGED openPages
    /\ srpc' = "err_close_context"
    /\ UNCHANGED <<pwScope, openBrowsers, openContexts, r_nav>>
    /\ SrFrame

\* finally: try: await context.close()
SrErrCloseContext ==
    /\ srpc = "err_close_context"
    /\ \/ /\ openContexts' = openContexts - 1 /\ UNCHANGED exc
       \/ /\ exc' = "context.close failed" /\ UNCHANGED openContexts
    /\ srpc' = "err_close_browser"
    /\ UNCHANGED <<pwScope, openBrowsers, openPages, r_nav>>
    /\ SrFrame

\* finally: await browser.close(); then raise RuntimeError(f"Navigation error: {e}")
\* unless one of the close calls raised, whose exception propagates instead
SrErrCloseBrowser ==
    /\ srpc = "err_close_browser"
    /\ \/ /\ openBrowsers' = openBrowsers - 1 /\ UNCHANGED exc
       \/ /\ exc' = "browser.close failed" /\ UNCHANGED openBrowsers
    /\ srpc' = "unwind"
    /\ UNCHANGED <<pwScope, openContexts, openPages, r_nav>>
    /\ SrFrame

\* await page.wait_for_timeout(300)
SrWait ==
    /\ srpc = "wait"
    /\ \/ /\ srpc' = "eval_nav" /\ UNCHANGED exc
       \/ Unwind("wait_for_timeout failed")
    /\ UNCHANGED <<pwScope, openBrowsers, openContexts, openPages, r_nav>>
    /\ SrFrame

\* nav = await page.evaluate("... getEntriesByType('navigation') ...")
SrEvalNav ==
    /\ srpc = "eval_nav"
    /\ \/ /\ \E n \in NavResults : r_nav' = n
          /\ srpc' = "eval_perf"
          /\ UNCHANGED exc
       \/ /\ Unwind("evaluate failed") /\ UNCHANGED r_nav
    /\ UNCHANGED <<pwScope, openBrowsers, openContexts, openPages>>
    /\ SrFrame

\* perf_entries = await page.evaluate("... getEntries() ...")
SrEvalPerf ==
    /\ srpc = "eval_perf"
    /\ \/ /\ srpc' = "close_page" /\ UNCHANGED exc
       \/ Unwind("evaluate failed")
    /\ UNCHANGED <<pwScope, openBrowsers, openContexts, openPages, r_nav>>
    /\ SrFrame

\* await page.close()
SrClosePage ==
    /\ srpc = "close_page"
    /\ \/ /\ openPages' = openPages - 1 /\ srpc' = "close_context" /\ UNCHANGED exc
       \/ /\ Unwind("page.close failed") /\ UNCHANGED openPages
    /\ UNCHANGED <<pwScope, openBrowsers, openContexts, r_nav>>
    /\ SrFrame

\* await context.close()
SrCloseContext ==
    /\ srpc = "close_context"
    /\ \/ /\ openContexts' = openContexts - 1 /\ srpc' = "close_browser" /\ UNCHANGED exc
       \/ /\ Unwind("context.close failed") /\ UNCHANGED openContexts
    /\ UNCHANGED <<pwScope, openBrowsers, openPages, r_nav>>
    /\ SrFrame

\* await browser.close(); the return statement follows
SrCloseBrowser ==
    /\ srpc = "close_browser"
    /\ \/ /\ openBrowsers' = openBrowsers - 1 /\ srpc' = "return" /\ UNCHANGED exc
       \/ /\ Unwind("browser.close failed") /\ UNCHANGED openBrowsers
    /\ UNCHANGED <<pwScope, openContexts, openPages, r_nav>>
    /\ SrFrame

\* The `async with` block is left, by return or by exception, and control
\* goes back to measure_multiple_runs. The block itself calls no close() on
\* page, context or browser: only the statements above do. On return the
\* caller receives nav; on an exception the locals are lost with the frame.
SrExitScope ==
    /\ srpc \in {"return", "unwind"}
    /\ pwScope' = FALSE
    /\ srpc' = IF srpc = "return" THEN "returned" ELSE "raised"
    /\ r_nav' = IF srpc = "return" THEN r_nav ELSE NoneNav
    /\ UNCHANGED <<openBrowsers, openContexts, openPages, exc>>
    /\ SrFrame

SingleRunReal ==
    \/ SrStart \/ SrLaunch \/ SrNewContext \/ SrNewPage \/ SrGoto
    \/ SrErrClosePage \/ SrErrCloseContext \/ SrErrCloseBrowser
    \/ SrWait \/ SrEvalNav \/ SrEvalPerf
    \/ SrClosePage \/ SrCloseContext \/ SrCloseBrowser
    \/ SrExitScope

\* ------------------------------------------------ the handlers' returns
\* api_simulate rebuilds the display rows from original and optimized
ApiSimulatePhases(original, optimized) ==
    [n \in 1..7 |->
        [id |-> PhaseOrder[n],
         name |-> PhaseNames[PhaseOrder[n]],
         original |-> Round1(original[PhaseOrder[n]]),
         optimized |-> Round1(optimized[PhaseOrder[n]]),
         delta |-> Round1(optimized[PhaseOrder[n]] - original[PhaseOrder[n]])]]

BatchOver == pc = "batch" /\ srpc = "none" /\ i = runs

\* measure_multiple_runs aggregates and returns; api_measure records the
\* duration for the url and answers with the `safe` body. No exception
\* leaves measure_multiple_runs, so the handlers' `except` arms stay unused.
ApiMeasureReturn ==
    /\ BatchOver
    /\ request.endpoint = "measure"
    /\ LET result == MeasureResult(request.url, runs, raw_results)
       IN  /\ mmr_result' = <<result>>
           /\ SetResponse(200, <<[url |-> result.url,
                                  runs |-> result.runs,
                                  original |-> result.original,
                                  optimized |-> result.optimized,
                                  phases |-> result.phases,
                                  raw_results |-> result.raw_results]>>)
    /\ MEASUREMENT_TIMES' = MEASUREMENT_TIMES \cup {request.url}
    /\ pc' = "responded"
    /\ UNCHANGED <<PLAYWRIGHT_AVAILABLE, request, runs, i, proxies, raw_results, mmrCalls,
                   liveCalls, srpc, proxy, pwScope, openBrowsers, openContexts, openPages,
                   r_nav, exc, sim_result, exVars, simVars>>

\* measure_multiple_runs returns the baseline; simulate_optimizations applies
\* the heuristics; api_simulate answers with original, optimized and phases
ApiSimulateReturn ==
    /\ BatchOver
    /\ request.endpoint = "simulate"
    /\ LET base == MeasureResult(request.url, runs, raw_results)
           result == SimulateResult(base.original, request.scenario)
       IN  /\ mmr_result' = <<base>>
           /\ sim_result' = <<result>>
           /\ SetResponse(200, <<[url |-> request.url,
                                  original |-> result.original,
                                  optimized |-> result.optimized,
                                  phases |-> ApiSimulatePhases(result.original,
                                                               result.optimized)]>>)
    /\ pc' = "responded"
    /\ UNCHANGED <<PLAYWRIGHT_AVAILABLE, MEASUREMENT_TIMES, request, runs, i, proxies,
                   raw_results, mmrCalls, liveCalls, srpc, proxy, pwScope, openBrowsers,
                   openContexts, openPages, r_nav, exc, exVars, simVars>>

\* One behaviour is one request served by a freshly started process.
Init ==
    /\ PLAYWRIGHT_AVAILABLE \in BOOLEAN
    /\ MainIdle
    /\ ExIdle
    /\ SimIdle

Next ==
    \/ \E present \in BOOLEAN, url \in Urls, n \in 0..MaxRuns, ps \in ProxyLists :
          ApiMeasure(present, url, n, ps)
    \/ \E present \in BOOLEAN, url \in Urls, sc \in Scenarios :
          ApiSimulate(present, url, sc)
    \/ AttemptSimulated
    \/ AttemptLive
    \/ AttemptReturned
    \/ AttemptFailed
    \/ SingleRunReal
    \/ ApiMeasureReturn
    \/ ApiSimulateReturn

Spec == Init /\ [][Next]_vars

\* ======================= properties of the extractor (under SpecExtract)
SecureStartZeroOrAbsent(n) ==
    \/ "secureConnectionStart" \notin DOMAIN n.d
    \/ n.d["secureConnectionStart"] \in {Num(0), Null}

\* a non-empty record all of whose fields are numbers or null
WellFormedRecord(n) ==
    /\ n.k = "dict"
    /\ DOMAIN n.d # {}
    /\ \A f \in DOMAIN n.d : n.d[f].k # "bad"

\* None, an empty record, a value that is no record, or a record with a
\* non-numeric value in a field the extractor reads (the redirect times are
\* read only beside a non-zero redirectCount)
UnusableRecord(n) ==
    \/ n.k # "dict"
    \/ DOMAIN n.d = {}
    \/ \E f \in DOMAIN n.d \cap AlwaysRead : n.d[f].k = "bad"
    \/ /\ "redirectCount" \in DOMAIN n.d
       /\ n.d["redirectCount"].k = "num"
       /\ n.d["redirectCount"].v # 0
       /\ \E f \in DOMAIN n.d \cap {"redirectStart", "redirectEnd"} : n.d[f].k = "bad"

\* C5 as stated: whenever secureConnectionStart is 0 or absent the returned
\* tls is 0.0, also for empty records and records with a malformed field.
C5_TlsZeroForAnyInput ==
    (exOut # <<>> /\ SecureStartZeroOrAbsent(exNav)) => exOut[1].phases["tls"] = 0

\* C5 amended: on a non-empty record whose fields are all numeric or null,
\* secureConnectionStart 0 or absent gives tls = 0.0; on None, an empty
\* record or a record with a malformed field the result is the simulated
\* fallback, whose tls lies in [10, 200] ms.
C5_TlsZeroOnWellFormedRecord ==
    exOut # <<>> =>
        /\ (WellFormedRecord(exNav) /\ SecureStartZeroOrAbsent(exNav))
              => exOut[1].phases["tls"] = 0
        /\ UnusableRecord(exNav) => exOut[1].phases["tls"] \in 1000..20000

\* a record with a connectEnd but no secure start has been extracted
C5_Witness ==
    /\ exOut # <<>>
    /\ WellFormedRecord(exNav)
    /\ "secureConnectionStart" \notin DOMAIN exNav.d
    /\ "connectEnd" \in DOMAIN exNav.d
    /\ exNav.d["connectEnd"] = Num(3000)
    /\ exOut[1].phases["tls"] = 0

\* C9: for every input the extractor returns (it never raises) a mapping
\* with exactly the seven phase keys, each value >= 0.
C9_SevenNonNegativePhases ==
    /\ SimulatePhasesFromNav(exNav) # {}
    /\ exOut # <<>> =>
          /\ DOMAIN exOut[1].phases = PhaseIds
          /\ \A k \in PhaseIds : exOut[1].phases[k] >= 0

\* a record whose raw dns difference is negative has been extracted
C9_Witness ==
    /\ exOut # <<>>
    /\ ~exOut[1].fellBack
    /\ "domainLookupStart" \in DOMAIN exNav.d
    /\ "domainLookupEnd" \in DOMAIN exNav.d
    /\ exNav.d["domainLookupStart"] = Num(3000)
    /\ exNav.d["domainLookupEnd"] = Num(1000)
    /\ exOut[1].phases["dns"] = 0
\* ==================== properties of the request handlers (under Spec)
\* the batch the request started has been aggregated and answered
BatchAnswered == pc = "responded" /\ mmr_result # <<>>

\* the number of attempts the request asks for
RequestedRuns == IF request.endpoint = "measure" THEN Max(1, request.runs) ELSE 1

\* C1: for runs = N >= 1 and any pattern of per-attempt outcomes the batch
\* completes without raising, raw_results has exactly N entries numbered
\* 1..N in attempt order, and no attempt is made twice.
C1_BatchYieldsNEntries ==
    /\ pc = "batch" => (Len(raw_results) = i /\ i <= runs)
    /\ \A n \in 1..Len(raw_results) : raw_results[n].run = n
    /\ liveCalls <= i + (IF srpc = "none" THEN 0 ELSE 1)
    /\ srpc \in {"none", "returned"} => exc = ""
    /\ BatchAnswered =>
          /\ response.status = 200
          /\ Len(mmr_result[1].raw_results) = RequestedRuns
          /\ mmr_result[1].runs = RequestedRuns
          /\ \A n \in 1..RequestedRuns : mmr_result[1].raw_results[n].run = n
          /\ liveCalls <= RequestedRuns

\* a two-run batch whose first attempt failed and whose second succeeded
C1_Witness ==
    /\ BatchAnswered
    /\ request.endpoint = "measure"
    /\ request.runs = 2
    /\ mmr_result[1].raw_results[1].hasWarning
    /\ mmr_result[1].raw_results[2].origin = "extracted"

AllFlagsFalse(sc) == ~sc.tls_warm /\ ~sc.edge_cache /\ ~sc.defer_js /\ ~sc.early_hints

\* C4: with all four flags false simulate_optimizations returns optimized
\* equal to original in every field, so every delta and displayed delta is
\* 0; measure_multiple_runs always returns optimized equal to original.
C4_NoFlagsIsIdentity ==
    /\ mmr_result # <<>> =>
          /\ mmr_result[1].optimized = mmr_result[1].original
          /\ \A n \in 1..7 : mmr_result[1].phases[n].delta = 0
    /\ (sim_result # <<>> /\ AllFlagsFalse(sim_result[1].scenario)) =>
          /\ \A k \in AllKeys : sim_result[1].optimized[k] = sim_result[1].original[k]
          /\ \A k \in AllKeys : sim_result[1].deltas[k] = 0
          /\ \A n \in 1..7 : sim_result[1].phases[n].delta = 0
          /\ \A n \in 1..7 : response.body[1].phases[n].delta = 0
          /\ response.body[1].optimized = response.body[1].original

\* a simulation with no flag set over a baseline that has a TLS phase
C4_Witness ==
    /\ sim_result # <<>>
    /\ AllFlagsFalse(sim_result[1].scenario)
    /\ sim_result[1].original["tls"] > TlsFloor
    /\ sim_result[1].optimized["tls"] = sim_result[1].original["tls"]

\* C6 as stated: a RunResult carries a warning whenever its phases are
\* simulated, so a RunResult without a warning holds measured phases.
C6_NoWarningMeansMeasured ==
    \A n \in 1..Len(raw_results) :
        ~raw_results[n].hasWarning => raw_results[n].origin = "extracted"

\* C6 amended: a RunResult carries a warning exactly when its live attempt
\* raised, and its phases are then simulated; a RunResult built without an
\* exception carries no warning, whether its phases were extracted from the
\* navigation record or simulated (engine unavailable, nav absent or
\* malformed); with the engine unavailable no RunResult carries a warning.
C6_WarningIffAttemptRaised ==
    \A n \in 1..Len(raw_results) :
        /\ raw_results[n].hasWarning <=> raw_results[n].origin = "attempt_raised"
        /\ raw_results[n].hasWarning => raw_results[n].phases \in SimSamples
        /\ ~PLAYWRIGHT_AVAILABLE =>
              (~raw_results[n].hasWarning /\ raw_results[n].phases \in SimSamples)
        /\ raw_results[n].origin = "nav_fallback" => raw_results[n].phases \in SimSamples

\* one attempt raised and was warned, another fell back without a warning
C6_Witness ==
    /\ Len(raw_results) = 2
    /\ raw_results[1].hasWarning
    /\ raw_results[1].warning = "evaluate failed"
    /\ raw_results[2].origin = "nav_fallback"
    /\ ~raw_results[2].hasWarning

TotalsConsistent(rec) ==
    /\ rec["full_ttfb"] = rec["redirect"] + rec["dns"] + rec["connect"] + rec["tls"]
                            + rec["http_wait"]
    /\ rec["total"] = rec["full_ttfb"] + rec["download"] + rec["client_render"]

\* C7: in every RunResult, in the aggregated original and in optimized (the
\* copy and the transformed one) full_ttfb = redirect+dns+connect+tls+
\* http_wait and total = full_ttfb+download+client_render of the same record.
C7_TotalsMatchPhases ==
    /\ \A n \in 1..Len(raw_results) :
          /\ raw_results[n].full_ttfb =
                raw_results[n].phases["redirect"] + raw_results[n].phases["dns"]
                  + raw_results[n].phases["connect"] + raw_results[n].phases["tls"]
                  + raw_results[n].phases["http_wait"]
          /\ raw_results[n].total =
                raw_results[n].full_ttfb + raw_results[n].phases["download"]
                  + raw_results[n].phases["client_render"]
    /\ mmr_result # <<>> =>
          /\ TotalsConsistent(mmr_result[1].original)
          /\ TotalsConsistent(mmr_result[1].optimized)
    /\ sim_result # <<>> =>
          /\ TotalsConsistent(sim_result[1].original)
          /\ TotalsConsistent(sim_result[1].optimized)
          /\ TotalsConsistent(response.body[1].optimized)

\* a simulation whose flags changed the totals
C7_Witness ==
    /\ sim_result # <<>>
    /\ sim_result[1].scenario.edge_cache
    /\ sim_result[1].optimized["full_ttfb"] < sim_result[1].original["full_ttfb"]
    /\ sim_result[1].optimized["total"] < sim_result[1].original["total"]

\* C8: a request whose url is missing or empty is rejected with a client
\* error before any measurement: measure_multiple_runs is never called for
\* it, on /api/measure and on /simulate alike.
C8_EmptyUrlRejectedBeforeMeasurement ==
    (request.endpoint # "none" /\ (~request.urlPresent \/ request.url = "")) =>
        /\ mmrCalls = 0
        /\ response.status \in {400, 422}

\* C10: when _single_run_real hands control back to the aggregator - by
\* return, by a navigation error, or by a failure raised after navigation
\* (wait or performance-entry evaluation) - page, context and browser have
\* been closed, so the next attempt never starts beside an open session.
C10_SessionClosedWhenControlReturns ==
    (\/ srpc = "returned"
     \/ srpc = "raised" /\ exc \in {"Navigation error", "wait_for_timeout failed",
                                     "evaluate failed"})
        => (openPages = 0 /\ openContexts = 0 /\ openBrowsers = 0)

\* C11: simulate_optimizations never makes the page slower: for every
\* baseline the extractor produced and every combination of the four flags,
\* optimized[k] <= original[k] for the seven phases, full_ttfb and total,
\* so every delta is <= 0.
C11_NeverSlower ==
    sim_result # <<>> =>
        \A k \in AllKeys :
            /\ sim_result[1].optimized[k] <= sim_result[1].original[k]
            /\ sim_result[1].deltas[k] <= 0

\* ================== properties of the heuristics (under SpecSim)
BothHttpWaitFlags(sc) == sc.edge_cache /\ sc.early_hints

\* C2 as stated: with edge_cache and early_hints both set the final
\* optimized.http_wait is max(10.0, original.http_wait * 0.7), the edge_cache
\* result being overridden (20.0 gives 14.0).
C2_EarlyHintsOverridesEdgeCache ==
    (simOut # <<>> /\ BothHttpWaitFlags(simScenario)) =>
        simOut[1].optimized["http_wait"] = Max(1000, (simBase["http_wait"] * 70) \div 100)

\* C2 amended: with edge_cache and early_hints both set the final
\* optimized.http_wait is the early_hints rule applied to the edge_cache
\* result, max(10.0, max(10.0, original.http_wait * 0.3) * 0.7); a baseline
\* http_wait of 20.0 yields 10.0.
C2_EarlyHintsAppliedToEdgeCacheResult ==
    (simOut # <<>> /\ BothHttpWaitFlags(simScenario)) =>
        /\ simOut[1].optimized["http_wait"] =
              Max(1000, (Max(1000, (simBase["http_wait"] * 30) \div 100) * 70) \div 100)
        /\ simBase["http_wait"] = 2000 => simOut[1].optimized["http_wait"] = 1000

\* both flags set on a 100 ms baseline: 100 -> 30 -> 21 ms
C2_Witness ==
    /\ simOut # <<>>
    /\ BothHttpWaitFlags(simScenario)
    /\ simBase["http_wait"] = 10000
    /\ simOut[1].optimized["http_wait"] = 2100

\* C3: when edge_cache and early_hints are not both set, each optimized
\* phase is its table rule applied to the baseline value if its flag is set
\* and the baseline value otherwise; redirect is never changed and the
\* returned original is the baseline, unmodified.
C3_RulesApplyToBaseline ==
    simOut # <<>> =>
        /\ simOut[1].original = simBase
        /\ simOut[1].optimized["redirect"] = simBase["redirect"]
        /\ ~BothHttpWaitFlags(simScenario) =>
              /\ simOut[1].optimized["tls"] =
                    IF simScenario.tls_warm
                    THEN Max(100, (simBase["tls"] * 10) \div 100) ELSE simBase["tls"]
              /\ simOut[1].optimized["dns"] =
                    IF simScenario.edge_cache
                    THEN (simBase["dns"] * 20) \div 100 ELSE simBase["dns"]
              /\ simOut[1].optimized["connect"] =
                    IF simScenario.edge_cache
                    THEN (simBase["connect"] * 10) \div 100 ELSE simBase["connect"]
              /\ simOut[1].optimized["http_wait"] =
                    IF simScenario.edge_cache
                    THEN Max(1000, (simBase["http_wait"] * 30) \div 100)
                    ELSE IF simScenario.early_hints
                    THEN Max(1000, (simBase["http_wait"] * 70) \div 100)
                    ELSE simBase["http_wait"]
              /\ simOut[1].optimized["client_render"] =
                    IF simScenario.defer_js
                    THEN Max(10000, (simBase["client_render"] * 60) \div 100)
                    ELSE simBase["client_render"]
              /\ simOut[1].optimized["download"] =
                    IF simScenario.early_hints
                    THEN (simBase["download"] * 90) \div 100 ELSE simBase["download"]

\* tls_warm, defer_js and early_hints applied to a baseline they all change
C3_Witness ==
    /\ simOut # <<>>
    /\ simScenario = [tls_warm |-> TRUE, edge_cache |-> FALSE,
                      defer_js |-> TRUE, early_hints |-> TRUE]
    /\ simBase["tls"] = 10000 /\ simOut[1].optimized["tls"] = 1000
    /\ simBase["client_render"] = 20000 /\ simOut[1].optimized["client_render"] = 12000
    /\ simBase["http_wait"] = 10000 /\ simOut[1].optimized["http_wait"] = 7000
    /\ simBase["download"] = 3000 /\ simOut[1].optimized["download"] = 2700

====
